---- MODULE Spec2Model ----
(***************************************************************************)
(* Model of Distributed-Job-Scheduling/mermaid/generate_png.py: the render *)
(* operation generate_png(mmd_file, png_file) and the driver loop of the   *)
(* __main__ block.  The file system, the remote service and the input      *)
(* files are the environment: every outcome they can produce is a          *)
(* nondeterministic choice of the step that meets it.                      *)
(*                                                                         *)
(* Text is a sequence of code points, bytes are sequences of 0..255, the   *)
(* base64 text is a sequence of one-character strings, a file name is a    *)
(* sequence of tokens (stem, extension).                                   *)
(***************************************************************************)
EXTENDS Integers, Sequences, FiniteSets, TLC

\* ------------------------------------------------------------------ bounds
\* number of different diagram sources the input files may hold (the first
\* NumSources of SourceTexts, at most 7)
NumSources == 3
\* response bodies range from Threshold-1 up to Threshold+MaxOver bytes
MaxOver == 0

\* ------------------------------------------------------- program constants
\* generate_png.py:34  `if file_size < 500`
Threshold == 500
\* generate_png.py:14  zlib.compress(..., 9): CMF/FLG header bytes 0x78 0xDA
ZlibCMF == 120
ZlibFLG == 218

\* generate_png.py:48-53
mmd_files ==
  << <<"leader-election-sequence", ".mmd">>,
     <<"queue-based-architecture", ".mmd">>,
     <<"decision-tree", ".mmd">>,
     <<"idempotency-pattern", ".mmd">> >>

\* generate_png.py:20  the fixed part of the request URL
UrlPrefix == "https://mermaid.ink/img/pako:"

\* ------------------------------------------------------------- pure helpers
\* str.replace(old, new) on a tokenised name: every occurrence is replaced
Replace(name, old, new) ==
  [k \in DOMAIN name |-> IF name[k] = old THEN new ELSE name[k]]

\* generate_png.py:57
PngName(name) == Replace(name, ".mmd", ".png")

PngPaths == { PngName(mmd_files[k]) : k \in DOMAIN mmd_files }

RECURSIVE Flatten(_)
Flatten(ss) == IF ss = <<>> THEN <<>> ELSE Head(ss) \o Flatten(Tail(ss))

\* str.encode('utf-8') of one code point (no surrogates: the text was
\* decoded from a file in strict mode)
Utf8OfCodePoint(cp) ==
  IF cp < 128 THEN <<cp>>
  ELSE IF cp < 2048 THEN <<192 + (cp \div 64), 128 + (cp % 64)>>
  ELSE IF cp < 65536
       THEN <<224 + (cp \div 4096), 128 + ((cp \div 64) % 64), 128 + (cp % 64)>>
  ELSE <<240 + (cp \div 262144), 128 + ((cp \div 4096) % 64),
         128 + ((cp \div 64) % 64), 128 + (cp % 64)>>

\* generate_png.py:14  content.encode('utf-8')
Utf8Encode(text) == Flatten([k \in DOMAIN text |-> Utf8OfCodePoint(text[k])])

\* the n low bits of v, most significant first (Huffman codes are packed
\* starting from their most significant bit)
BitsMsbFirst(v, n) == [k \in 1..n |-> (v \div (2 ^ (n - k))) % 2]

\* RFC 1951 3.2.6, fixed Huffman code of a literal byte
FixedLiteralCode(b) ==
  IF b <= 143 THEN BitsMsbFirst(48 + b, 8) ELSE BitsMsbFirst(400 + (b - 144), 9)

\* one final block (BFINAL=1, BTYPE=01) of literals closed by the 7-bit
\* end-of-block code.  This is the block zlib emits at level 9 for every
\* input of fewer than 5 bytes: a match needs an earlier occurrence at a
\* window position >= 1 and three bytes of lookahead, and the fixed code
\* is shorter than both a stored block and a dynamic header there.
DeflateBits(bytes) ==
  <<1, 1, 0>> \o Flatten([k \in DOMAIN bytes |-> FixedLiteralCode(bytes[k])])
              \o <<0, 0, 0, 0, 0, 0, 0>>

BitAt(bits, k) == IF k <= Len(bits) THEN bits[k] ELSE 0

\* deflate packs the bit stream into bytes starting at the least significant
\* bit; the last byte is padded with zero bits
PackBits(bits) ==
  [j \in 1..((Len(bits) + 7) \div 8) |->
      BitAt(bits, 8*(j-1) + 1)       + 2   * BitAt(bits, 8*(j-1) + 2)
    + 4   * BitAt(bits, 8*(j-1) + 3) + 8   * BitAt(bits, 8*(j-1) + 4)
    + 16  * BitAt(bits, 8*(j-1) + 5) + 32  * BitAt(bits, 8*(j-1) + 6)
    + 64  * BitAt(bits, 8*(j-1) + 7) + 128 * BitAt(bits, 8*(j-1) + 8)]

RECURSIVE AdlerA(_, _)
AdlerA(bytes, n) == IF n = 0 THEN 1 ELSE (AdlerA(bytes, n - 1) + bytes[n]) % 65521

RECURSIVE AdlerB(_, _)
AdlerB(bytes, n) ==
  IF n = 0 THEN 0 ELSE (AdlerB(bytes, n - 1) + AdlerA(bytes, n)) % 65521

\* RFC 1950: the Adler-32 checksum of the uncompressed data, big-endian
Adler32Bytes(bytes) ==
  LET a == AdlerA(bytes, Len(bytes))
      b == AdlerB(bytes, Len(bytes))
  IN  <<b \div 256, b % 256, a \div 256, a % 256>>

\* generate_png.py:14  zlib.compress(bytes, 9)
ZlibCompress(bytes) ==
  <<ZlibCMF, ZlibFLG>> \o PackBits(DeflateBits(bytes)) \o Adler32Bytes(bytes)

B64Alphabet ==
  << "A","B","C","D","E","F","G","H","I","J","K","L","M",
     "N","O","P","Q","R","S","T","U","V","W","X","Y","Z",
     "a","b","c","d","e","f","g","h","i","j","k","l","m",
     "n","o","p","q","r","s","t","u","v","w","x","y","z",
     "0","1","2","3","4","5","6","7","8","9","+","/" >>

B64Char(v) == B64Alphabet[v + 1]

\* base64.b64encode: three bytes give four characters, a last group of one
\* or two bytes is padded with '='
RECURSIVE B64Encode(_)
B64Encode(bytes) ==
  IF Len(bytes) = 0 THEN <<>>
  ELSE IF Len(bytes) = 1
       THEN << B64Char(bytes[1] \div 4), B64Char((bytes[1] % 4) * 16), "=", "=" >>
  ELSE IF Len(bytes) = 2
       THEN << B64Char(bytes[1] \div 4),
               B64Char((bytes[1] % 4) * 16 + (bytes[2] \div 16)),
               B64Char((bytes[2] % 16) * 4), "=" >>
  ELSE << B64Char(bytes[1] \div 4),
          B64Char((bytes[1] % 4) * 16 + (bytes[2] \div 16)),
          B64Char((bytes[2] % 16) * 4 + (bytes[3] \div 64)),
          B64Char(bytes[3] % 64) >> \o B64Encode(SubSeq(bytes, 4, Len(bytes)))

\* base64.urlsafe_b64encode: b64encode, then '+' -> '-' and '/' -> '_'
UrlsafeB64Encode(bytes) ==
  LET std == B64Encode(bytes)
  IN  [k \in DOMAIN std |-> IF std[k] = "+" THEN "-"
                            ELSE IF std[k] = "/" THEN "_" ELSE std[k]]

\* str.rstrip('='): every trailing '=' is removed
RECURSIVE RStripEq(_)
RStripEq(s) ==
  IF s # <<>> /\ s[Len(s)] = "=" THEN RStripEq(SubSeq(s, 1, Len(s) - 1)) ELSE s

\* variant of Encoded: the padding is kept
Encoded_KeepsPadding(compressed) == UrlsafeB64Encode(compressed)

\* generate_png.py:17
Encoded(compressed) == RStripEq(UrlsafeB64Encode(compressed))

\* generate_png.py:20
MakeUrl(encoded) == <<UrlPrefix>> \o encoded

\* generate_png.py:14-20, the URL requested for a diagram source
UrlOfContent(text) == MakeUrl(Encoded(ZlibCompress(Utf8Encode(text))))

IsContinuation(b) == b >= 128 /\ b <= 191

\* length of the UTF-8 sequence a lead byte opens, 0 for a byte that opens none
Utf8SeqLen(b) ==
  IF b < 128 THEN 1
  ELSE IF b >= 194 /\ b <= 223 THEN 2
  ELSE IF b >= 224 /\ b <= 239 THEN 3
  ELSE IF b >= 240 /\ b <= 244 THEN 4
  ELSE 0

\* the text decoder of open(png_file, 'r').read(), strict UTF-8: every lead
\* byte is followed by its continuation bytes (no overlong form, no
\* surrogate, nothing above U+10FFFF) and every continuation byte belongs to
\* the sequence of the nearest lead byte before it
Utf8Decodable(bytes) ==
  \A k \in 1..Len(bytes) :
    IF IsContinuation(bytes[k])
    THEN \E d \in 1..3 :
            /\ k - d >= 1
            /\ ~IsContinuation(bytes[k - d])
            /\ Utf8SeqLen(bytes[k - d]) > d
            /\ \A e \in 1..(d - 1) : IsContinuation(bytes[k - e])
    ELSE /\ Utf8SeqLen(bytes[k]) >= 1
         /\ k + Utf8SeqLen(bytes[k]) - 1 <= Len(bytes)
         /\ \A e \in 1..(Utf8SeqLen(bytes[k]) - 1) : IsContinuation(bytes[k + e])
         /\ (bytes[k] = 224 => bytes[k + 1] >= 160)
         /\ (bytes[k] = 237 => bytes[k + 1] <= 159)
         /\ (bytes[k] = 240 => bytes[k + 1] >= 144)
         /\ (bytes[k] = 244 => bytes[k + 1] <= 143)

\* variant of IsSmall: the comparison is inclusive
IsSmall_Inclusive(file_size) == file_size <= Threshold

\* generate_png.py:34
IsSmall(file_size) == file_size < Threshold

\* variant of CountAfter: every call is counted
CountAfter_EveryCall(ret, count) == count + 1

\* generate_png.py:58-59
CountAfter(ret, count) == IF ret THEN count + 1 ELSE count

\* --------------------------------------------------------- the environment
\* the texts of at most two code points made of 'a' and e-acute (one and
\* two bytes of UTF-8), shortest first; each is under 5 bytes of UTF-8
SourceTexts ==
  << <<>>, <<97>>, <<233>>, <<97, 97>>, <<97, 233>>, <<233, 97>>, <<233, 233>> >>

\* what an input file may hold
Contents == { SourceTexts[k] : k \in 1..NumSources }

\* stands for "no source is observed": no text has a negative code point
NoSource == <<-1>>

Fill(n, b) == [k \in 1..n |-> b]

\* the 12-byte text "Syntax error"
SyntaxErrorBody == <<83, 121, 110, 116, 97, 120, 32, 101, 114, 114, 111, 114>>

\* the 8-byte PNG signature followed by n-8 zero bytes
PngBody(n) == <<137, 80, 78, 71, 13, 10, 26, 10>> \o Fill(n - 8, 0)

\* response bodies the service may send: a short text, a short body that is
\* not text, and images of Threshold..Threshold+MaxOver bytes
Bodies ==
  {SyntaxErrorBody, Fill(Threshold - 1, 255)}
    \cup { PngBody(n) : n \in Threshold..(Threshold + MaxOver) }

Absent == [exists |-> FALSE, bytes |-> <<>>]
File(bytes) == [exists |-> TRUE, bytes |-> bytes]

\* variant of OpenWbWrite: the file is opened in append mode
OpenWbWrite_Append(old, bytes) == File(old.bytes \o bytes)

\* generate_png.py:30-31  open(png_file, 'wb') truncates or creates the
\* file, f.write(data) makes the body its whole content
OpenWbWrite(old, bytes) == File(bytes)

\* what an output file left over from an earlier run holds
OldBytes == <<79, 76, 68>>

\* the output files before a first run and before a later run
AllAbsent == [p \in PngPaths |-> Absent]
AllLeftOver == [p \in PngPaths |-> File(OldBytes)]

NoSummary == [printed |-> FALSE, successes |-> 0, total |-> 0]

VARIABLES
  pc,            \* position of the single thread of control
  i,             \* index of the loop entry being processed (1-based)
  success_count, \* generate_png.py:55
  mmd_file,      \* arguments of the running generate_png call
  png_file,
  content,       \* generate_png.py:11
  url,           \* generate_png.py:20
  data,          \* generate_png.py:27
  retval,        \* value the running call returns
  kind,          \* how the running call ended: ok, small, net, write
  fs,            \* the output files
  summary,       \* the final line printed by generate_png.py:61
  attempted,     \* history: entries generate_png was called for, in order
  requests,      \* history: entries urlopen was called for, in order
  results,       \* history: outcome of every call that returned
  fs_at_call,    \* history: the output files when the running call began
  watched,       \* history: the diagram source observed, if any ...
  watchedUrls    \* ... and the URL of every request made for it, in order

vars == <<pc, i, success_count, mmd_file, png_file, content, url, data, retval,
          kind, fs, summary, attempted, requests, results, fs_at_call,
          watched, watchedUrls>>

callVars == <<mmd_file, png_file, content, url, data>>
histVars == <<attempted, requests, results, fs_at_call, watched, watchedUrls>>

NoName == <<>>

\* the program starts at the top of the loop; the environment supplies the
\* output files and the choice of the observed source
InitWith(outputs, sources) ==
  /\ pc = "loop"
  /\ i = 1
  /\ success_count = 0
  /\ mmd_file = NoName
  /\ png_file = NoName
  /\ content = <<>>
  /\ url = <<>>
  /\ data = <<>>
  /\ retval = FALSE
  /\ kind = "none"
  /\ fs \in outputs
  /\ summary = NoSummary
  /\ attempted = <<>>
  /\ requests = <<>>
  /\ results = <<>>
  /\ fs_at_call = fs
  /\ watched \in sources
  /\ watchedUrls = <<>>

\* a first or a later run, no source observed
Init == InitWith({AllAbsent, AllLeftOver}, {NoSource})

\* a first run in which the requests made for one source are observed
InitWatch == InitWith({AllAbsent}, Contents)

\* generate_png.py:56-58, the loop takes the next entry and calls generate_png
CallGeneratePng ==
  /\ pc = "loop"
  /\ i <= Len(mmd_files)
  /\ mmd_file' = mmd_files[i]
  /\ png_file' = PngName(mmd_files[i])
  /\ content' = <<>>
  /\ url' = <<>>
  /\ data' = <<>>
  /\ attempted' = Append(attempted, i)
  /\ fs_at_call' = fs
  /\ pc' = "read"
  /\ UNCHANGED <<i, success_count, retval, kind, fs, summary, requests, results,
                 watched, watchedUrls>>

\* variant of ReadInputOk: the URL also carries the name of the input file
ReadInputOk_UrlNamesFile ==
  /\ pc = "read"
  /\ \E text \in Contents :
        /\ content' = text
        /\ url' = UrlOfContent(text) \o <<"?", mmd_file[1]>>
  /\ pc' = "fetch"
  /\ UNCHANGED <<i, success_count, mmd_file, png_file, data, retval, kind, fs,
                 summary, histVars>>

\* generate_png.py:10-22, the input file is read and the URL is built
ReadInputOk ==
  /\ pc = "read"
  /\ \E text \in Contents :
        /\ content' = text
        /\ url' = UrlOfContent(text)
  /\ pc' = "fetch"
  /\ UNCHANGED <<i, success_count, mmd_file, png_file, data, retval, kind, fs,
                 summary, histVars>>

\* generate_png.py:10-11 lie outside the try block: when open() or read()
\* raises (file missing, unreadable, not UTF-8) the exception leaves
\* generate_png and, uncaught by the loop, ends the program
ReadInputRaises ==
  /\ pc = "read"
  /\ pc' = "raised"
  /\ UNCHANGED <<i, success_count, callVars, retval, kind, fs, summary, histVars>>

\* generate_png.py:26-27, the response arrives in full
FetchOk ==
  /\ pc = "fetch"
  /\ \E body \in Bodies : data' = body
  /\ requests' = Append(requests, i)
  /\ watchedUrls' = IF content = watched THEN Append(watchedUrls, url) ELSE watchedUrls
  /\ pc' = "write"
  /\ UNCHANGED <<i, success_count, mmd_file, png_file, content, url, retval, kind,
                 fs, summary, attempted, results, fs_at_call, watched>>

\* variant of FetchRaises: the output file is opened before the download
FetchRaises_OutputOpenedFirst ==
  /\ pc = "fetch"
  /\ requests' = Append(requests, i)
  /\ watchedUrls' = IF content = watched THEN Append(watchedUrls, url) ELSE watchedUrls
  /\ fs' = [fs EXCEPT ![png_file] = File(<<>>)]
  /\ retval' = FALSE
  /\ kind' = "net"
  /\ pc' = "return"
  /\ UNCHANGED <<i, success_count, callVars, summary, attempted, results,
                 fs_at_call, watched>>

\* generate_png.py:26-27 raise, generate_png.py:43-45 catch and return False
FetchRaises ==
  /\ pc = "fetch"
  /\ requests' = Append(requests, i)
  /\ watchedUrls' = IF content = watched THEN Append(watchedUrls, url) ELSE watchedUrls
  /\ retval' = FALSE
  /\ kind' = "net"
  /\ pc' = "return"
  /\ UNCHANGED <<i, success_count, callVars, fs, summary, attempted, results,
                 fs_at_call, watched>>

\* generate_png.py:30-31, the body is written over the output file
WriteOutputOk ==
  /\ pc = "write"
  /\ fs' = [fs EXCEPT ![png_file] = OpenWbWrite(fs[png_file], data)]
  /\ pc' = "check"
  /\ UNCHANGED <<i, success_count, callVars, retval, kind, summary, histVars>>

\* generate_png.py:30-31 raise, generate_png.py:43-45 catch and return False.
\* Either open() fails and the file is untouched, or open() has truncated
\* the file and flushing the buffered body fails, leaving the file empty.
WriteOutputRaises ==
  /\ pc = "write"
  /\ \/ fs' = fs
     \/ fs' = [fs EXCEPT ![png_file] = File(<<>>)]
  /\ retval' = FALSE
  /\ kind' = "write"
  /\ pc' = "return"
  /\ UNCHANGED <<i, success_count, callVars, summary, histVars>>

\* generate_png.py:33-35, a small body is suspect and is read back
CheckSizeSmall ==
  /\ pc = "check"
  /\ IsSmall(Len(data))
  /\ pc' = "reread"
  /\ UNCHANGED <<i, success_count, callVars, retval, kind, fs, summary, histVars>>

\* generate_png.py:39-41
CheckSizeOk ==
  /\ pc = "check"
  /\ ~IsSmall(Len(data))
  /\ retval' = TRUE
  /\ kind' = "ok"
  /\ pc' = "return"
  /\ UNCHANGED <<i, success_count, callVars, fs, summary, histVars>>

\* generate_png.py:36-38, the file is read back as text, printed, and the
\* call returns False
ReReadText ==
  /\ pc = "reread"
  /\ Utf8Decodable(fs[png_file].bytes)
  /\ retval' = FALSE
  /\ kind' = "small"
  /\ pc' = "return"
  /\ UNCHANGED <<i, success_count, callVars, fs, summary, histVars>>

\* variant of ReReadUndecodable: the read-back is not covered by the handler
ReReadUndecodable_Escapes ==
  /\ pc = "reread"
  /\ ~Utf8Decodable(fs[png_file].bytes)
  /\ pc' = "raised"
  /\ UNCHANGED <<i, success_count, callVars, retval, kind, fs, summary, histVars>>

\* generate_png.py:36-37 raise UnicodeDecodeError inside the try block,
\* generate_png.py:43-45 catch it and return False
ReReadUndecodable ==
  /\ pc = "reread"
  /\ ~Utf8Decodable(fs[png_file].bytes)
  /\ retval' = FALSE
  /\ kind' = "undecodable"
  /\ pc' = "return"
  /\ UNCHANGED <<i, success_count, callVars, fs, summary, histVars>>

\* variant of ReturnToLoop: an entry whose render failed is tried once more
ReturnToLoop_RetriesFailure ==
  /\ pc = "return"
  /\ success_count' = CountAfter(retval, success_count)
  /\ results' = Append(results, [entry |-> i, ret |-> retval, kind |-> kind])
  /\ i' = IF retval \/ (results # <<>> /\ results[Len(results)].entry = i)
          THEN i + 1 ELSE i
  /\ mmd_file' = NoName
  /\ png_file' = NoName
  /\ content' = <<>>
  /\ url' = <<>>
  /\ data' = <<>>
  /\ retval' = FALSE
  /\ kind' = "none"
  /\ pc' = "loop"
  /\ UNCHANGED <<fs, summary, attempted, requests, fs_at_call, watched,
                 watchedUrls>>

\* generate_png.py:58-59 and the loop's advance to the next entry; the
\* frame of the call that returned is gone
ReturnToLoop ==
  /\ pc = "return"
  /\ success_count' = CountAfter(retval, success_count)
  /\ results' = Append(results, [entry |-> i, ret |-> retval, kind |-> kind])
  /\ i' = i + 1
  /\ mmd_file' = NoName
  /\ png_file' = NoName
  /\ content' = <<>>
  /\ url' = <<>>
  /\ data' = <<>>
  /\ retval' = FALSE
  /\ kind' = "none"
  /\ pc' = "loop"
  /\ UNCHANGED <<fs, summary, attempted, requests, fs_at_call, watched,
                 watchedUrls>>

\* generate_png.py:61
PrintSummary ==
  /\ pc = "loop"
  /\ i > Len(mmd_files)
  /\ summary' = [printed |-> TRUE, successes |-> success_count,
                 total |-> Len(mmd_files)]
  /\ pc' = "done"
  /\ UNCHANGED <<i, success_count, callVars, retval, kind, fs, histVars>>

Next ==
  \/ CallGeneratePng
  \/ ReadInputOk
  \/ ReadInputRaises
  \/ FetchOk
  \/ FetchRaises
  \/ WriteOutputOk
  \/ WriteOutputRaises
  \/ CheckSizeSmall
  \/ CheckSizeOk
  \/ ReReadText
  \/ ReReadUndecodable
  \/ ReturnToLoop
  \/ PrintSummary

Spec == Init /\ [][Next]_vars

SpecWatch == InitWatch /\ [][Next]_vars

\* ---------------------------------------------------------------- claims
\* shorthand used by the properties below
Successes == { k \in DOMAIN results : results[k].ret }
Received == kind \in {"ok", "small", "undecodable"}
PngOf(k) == PngName(mmd_files[k])
UrlSafeChars ==
  { B64Alphabet[k] : k \in 1..62 } \cup {"-", "_"}

\* C1: whatever the environment does (input file missing or unreadable,
\* request failing, output file unwritable) a call of generate_png ends by
\* returning a boolean, never by an exception reaching its caller, and a
\* failed request or a failed write returns False.
C1_NoExceptionLeavesRender ==
  /\ pc # "raised"
  /\ (pc = "return" => retval \in BOOLEAN)
  /\ (pc = "return" /\ kind \in {"net", "write"} => retval = FALSE)

\* C2: every run attempts the four files once each, in list order, and
\* prints the summary; no failure of one entry ends the batch.  Stated on
\* finished runs: the entries attempted so far are 1, 2, ... in order, and
\* a run that has stopped has attempted all four and printed the summary.
C2_BatchNeverAborted ==
  /\ attempted = [k \in 1..Len(attempted) |-> k]
  /\ (pc \in {"done", "raised"} =>
        /\ attempted = <<1, 2, 3, 4>>
        /\ summary.printed)

\* C3: the summary prints the number of render calls that returned True out
\* of a total of 4; when one call failed on the network and the other three
\* succeeded, all four were attempted and the summary reads 3/4.
C3_SummaryCountsSuccesses ==
  summary.printed =>
    /\ summary.total = 4
    /\ summary.successes = Cardinality(Successes)
    /\ ((\E k \in DOMAIN results :
            /\ results[k].kind = "net"
            /\ \A j \in DOMAIN results \ {k} : results[j].ret)
        => /\ attempted = <<1, 2, 3, 4>>
           /\ summary.successes = 3)

C3_Witness ==
  /\ summary.printed
  /\ summary.successes = 3
  /\ results[2].kind = "net"
  /\ \A j \in {1, 3, 4} : results[j].ret

\* C4: a call whose response body was received and written returns False
\* exactly when the body is shorter than 500 bytes.
C4_FailureIffUnder500 ==
  (pc = "return" /\ Received) => (retval = FALSE <=> Len(data) < 500)

C4_Witness ==
  /\ pc = "return"
  /\ Len(data) = 500
  /\ retval = TRUE
  /\ results # <<>>
  /\ results[1].ret = FALSE
  /\ Len(fs[PngOf(1)].bytes) = 499

\* C5: when the response was received and the output file could be written,
\* the output file holds exactly the response body when the call returns,
\* whatever it held before and whether the call reports success or failure.
C5_OutputHoldsBody ==
  (pc = "return" /\ Received) =>
    /\ data \in Bodies
    /\ fs[png_file].exists
    /\ fs[png_file].bytes = data

C5_Witness ==
  /\ pc = "return"
  /\ kind = "small"
  /\ fs_at_call[png_file] = File(OldBytes)
  /\ fs[png_file].bytes = SyntaxErrorBody
  /\ results # <<>>
  /\ results[1].kind = "ok"
  /\ fs[PngOf(1)].bytes = PngBody(500)

C8_NoRetry ==
  /\ \A j, k \in DOMAIN attempted : j < k => attempted[j] < attempted[k]
  /\ \A j, k \in DOMAIN requests : j < k => requests[j] < requests[k]
  /\ Len(requests) <= 4
  /\ \A k \in DOMAIN requests :
        \A e \in 1..(requests[k] - 1) :
           \E j \in DOMAIN results : results[j].entry = e

C8_Witness ==
  /\ pc = "done"
  /\ Len(requests) = 4
  /\ results[1].kind = "net"
  /\ results[2].kind = "small"

\* C9: when a body shorter than 500 bytes that is not text has been
\* written, reading it back fails inside generate_png: the call goes on to
\* return False with the body still in the output file, and the loop then
\* moves to the next entry.
C9_UndecodableBodyIsCaught ==
  [][ /\ (pc = "reread" /\ ~Utf8Decodable(data)) =>
           /\ pc' = "return"
           /\ retval' = FALSE
           /\ fs'[png_file] = File(data)
      /\ (pc = "return" /\ kind = "undecodable") =>
           /\ pc' = "loop"
           /\ i' = i + 1
           /\ fs'[png_file] = File(data) ]_vars

C9_Witness ==
  /\ pc = "read"
  /\ i = 2
  /\ results[1].kind = "undecodable"
  /\ results[1].ret = FALSE
  /\ fs[PngOf(1)] = File(Fill(499, 255))

\* C10: a call whose request failed returns with every output file as it
\* was when the call began, and a call whose input could not be read has
\* made no request and left every output file as it was.
C10_FailureLeavesOutputAlone ==
  /\ (pc = "return" /\ kind = "net" => fs = fs_at_call)
  /\ (pc = "raised" =>
        /\ fs = fs_at_call
        /\ \A k \in DOMAIN requests : requests[k] # i)

C10_Witness ==
  /\ pc = "return"
  /\ kind = "net"
  /\ fs[png_file] = File(OldBytes)

====
